---- MODULE Spec2Model ----
(***************************************************************************)
(* Lung perfusion analysis pipeline (main.ipynb).                          *)
(*                                                                         *)
(* An image is a function from pixel coordinates <<y, x>> (row, column, as *)
(* numpy indexes them) to an intensity in 0..255.  A 0/255 mask is held as *)
(* the set of its pixels of value 255.  The shape <<rows, columns>> of the *)
(* arrays of one run is the state variable `shape`.                        *)
(***************************************************************************)
EXTENDS Integers, Sequences, FiniteSets, TLC

(***************************************************************************)
(* Bounds of the input families.                                           *)
(***************************************************************************)
\* pipeline and morphology inputs: ImgH rows of NStripes vertical stripes,
\* each StripeW columns wide and of one intensity
ImgH == 1
StripeW == 4
NStripes == 6
\* masks handed to the morphological cleanup: MorphW columns (or rows)
MorphW == 10
\* cleaned masks handed to component extraction: every mask of one row
ExtractW == 10
\* lung masks handed to the sector partition: every mask on SectorW x SectorH
SectorW == 2
SectorH == 5
\* sector triples handed to the statistics: every triple on one row
StatsW == 2

(***************************************************************************)
(* Program constants.                                                      *)
(***************************************************************************)
THRESH == 66
MAXVAL == 255
KOpenW == 7
KOpenH == 11
KCloseW == 4
KCloseH == 5

\* an optional array is a sequence: NoArray for Python's None, <<a>> for a
NoArray == << >>
NoError == "None"

\* intensities the input images are drawn from: black, the threshold itself,
\* the first value above it, white
Intensities == {0, THRESH, THRESH + 1, MAXVAL}

Max(a, b) == IF a >= b THEN a ELSE b
Min(a, b) == IF a <= b THEN a ELSE b

Pixels(sh) == (0 .. sh[1] - 1) \X (0 .. sh[2] - 1)

RECURSIVE SumOver(_, _)
\* sum of f[p] over the pixels p of S
SumOver(S, f) ==
    IF S = {} THEN 0
    ELSE LET p == CHOOSE q \in S : TRUE
         IN  f[p] + SumOver(S \ {p}, f)

(***************************************************************************)
(* cv2.getStructuringElement(cv2.MORPH_ELLIPSE, (w, h)): row i of the      *)
(* h x w element holds the columns c - dx .. c + dx (clipped to the        *)
(* element), dx = round(c * sqrt(1 - dy^2 / r^2)), r = h div 2,            *)
(* c = w div 2, dy = i - r.  The anchor is the element's centre            *)
(* (w div 2, h div 2); the result is the set of offsets <<dy, dx>> from    *)
(* the anchor.                                                             *)
(***************************************************************************)
\* the integer nearest to c * sqrt((r*r - dy*dy) / (r*r))
EllipseHalfWidth(c, r, dy) ==
    CHOOSE k \in 0 .. c :
        /\ (k = 0) \/ ((2 * k - 1) * (2 * k - 1) * r * r <= 4 * c * c * (r * r - dy * dy))
        /\ 4 * c * c * (r * r - dy * dy) < (2 * k + 1) * (2 * k + 1) * r * r

getStructuringElement(w, h) ==
    LET r == h \div 2
        c == w \div 2
    IN  UNION { LET dy == i - r
                    dx == EllipseHalfWidth(c, r, dy)
                    j1 == Max(c - dx, 0)
                    j2 == Min(c + dx + 1, w)
                IN  IF dy <= r /\ -dy <= r
                    THEN { <<dy, j - c>> : j \in j1 .. (j2 - 1) }
                    ELSE {}
              : i \in 0 .. (h - 1) }

kernel_open1 == getStructuringElement(KOpenW, KOpenH)
kernel_close == getStructuringElement(KCloseW, KCloseH)

(***************************************************************************)
(* cv2.erode / cv2.dilate with the default border: both read the source at *)
(* p + offset for every offset of the element; a sample outside the image  *)
(* is the maximum for erosion and the minimum for dilation, so it never    *)
(* decides the result.                                                     *)
(***************************************************************************)
\* (each result is written as the image { p : p \in ... } of the set that
\* defines it, so that TLC enumerates it once instead of re-deriving
\* membership through the nested calls)
erode(X, kernel, sh) ==
    { p : p \in { q \in Pixels(sh) :
                    \A o \in kernel :
                        << q[1] + o[1], q[2] + o[2] >> \in Pixels(sh)
                            => << q[1] + o[1], q[2] + o[2] >> \in X } }

dilate(X, kernel, sh) ==
    { p : p \in { q \in Pixels(sh) :
                    \E o \in kernel : << q[1] + o[1], q[2] + o[2] >> \in X } }

\* cv2.morphologyEx(src, cv2.MORPH_OPEN, kernel): erode, then dilate
morph_open(X, kernel, sh) == dilate(erode(X, kernel, sh), kernel, sh)

\* cv2.morphologyEx(src, cv2.MORPH_CLOSE, kernel): dilate, then erode
morph_close(X, kernel, sh) == erode(dilate(X, kernel, sh), kernel, sh)

\* the opening step of apply_morphological_operations
OpeningMutant(binary_image_, sh) == erode(binary_image_, kernel_open1, sh)
opening_step(binary_image_, sh) == morph_open(binary_image_, kernel_open1, sh)

\* the closing step of apply_morphological_operations
closing_step(opened_image_, sh) == morph_close(opened_image_, kernel_close, sh)

\* apply_morphological_operations: <<opened_image, processed_image>>
apply_morphological_operations(binary_image_, sh) ==
    LET opened == opening_step(binary_image_, sh)
    IN  <<opened, closing_step(opened, sh)>>

(***************************************************************************)
(* load_and_binarize_image: cv2.threshold(image, 66, 255, THRESH_BINARY)   *)
(* sets a pixel to 255 where the intensity is above the threshold.         *)
(***************************************************************************)
threshold(image, sh) == { p \in Pixels(sh) : image[p] > THRESH }

(***************************************************************************)
(* cv2.connectedComponentsWithStats(processed_image, connectivity=8).      *)
(***************************************************************************)
\* the 8 neighbours of the pixels of F
Neighbours8(F) ==
    { << p[1] + d[1], p[2] + d[2] >> :
        p \in F, d \in ((-1 .. 1) \X (-1 .. 1)) \ { << 0, 0 >> } }

RECURSIVE Flood(_, _, _)
\* S and the pixels of X reached from its newest pixels F through
\* 8-adjacent pixels of X
Flood(F, S, X) ==
    LET N == (Neighbours8(F) \cap X) \ S
    IN  IF N = {} THEN S ELSE Flood(N, S \cup N, X)

RECURSIVE ConnectedComponents(_)
\* the 8-connected components of the foreground X, as a set of pixel sets
ConnectedComponents(X) ==
    IF X = {} THEN {}
    ELSE LET p == CHOOSE q \in X : TRUE
             C == Flood({p}, {p}, X)
         IN  {C} \cup ConnectedComponents(X \ C)

\* The label maps the call may return: label 0 is the background, and the
\* components take the labels 1 .. n in an order that depends on the
\* labelling algorithm's scan, so every numbering is allowed.
LabelMaps(X, sh) ==
    LET comps == ConnectedComponents(X)
        n == Cardinality(comps)
    IN  { [l \in 0 .. n |-> IF l = 0 THEN Pixels(sh) \ X ELSE f[l]] :
            f \in { g \in [1 .. n -> comps] :
                      \A a, b \in 1 .. n : a # b => g[a] # g[b] } }

\* stats[:, cv2.CC_STAT_AREA]
Areas(labels_) == [l \in DOMAIN labels_ |-> Cardinality(labels_[l])]

(***************************************************************************)
(* np.argsort(a): the permutations of the indices that put a in ascending  *)
(* order.  The default sort is not stable, so equal entries may come out   *)
(* in any order.                                                           *)
(***************************************************************************)
RECURSIVE ArgsortFrom(_, _)
ArgsortFrom(rest, a) ==
    IF rest = {} THEN { <<>> }
    ELSE UNION { { <<m>> \o s : s \in ArgsortFrom(rest \ {m}, a) } :
                 m \in { k \in rest : \A j \in rest : a[k] <= a[j] } }

argsort(a) == ArgsortFrom(DOMAIN a, a)

\* s[::-1]
Reversed(s) == [k \in 1 .. Len(s) |-> s[Len(s) + 1 - k]]

\* s[lo:hi] for 0 <= lo <= hi, numpy's half-open 0-based slice
Slice(s, lo, hi) ==
    IF Min(hi, Len(s)) <= lo THEN <<>>
    ELSE SubSeq(s, lo + 1, Min(hi, Len(s)))

\* np.argsort(...)[::-1][1:3] applied to one argsort result
SelectMutant(order) == Slice(Reversed(order), 0, 2)
SelectAscendingMutant(order) == Slice(order, 1, 3)
select_indices(order) == Slice(Reversed(order), 1, 3)

\* [(labels == idx).astype(np.uint8) * 255 for idx in sorted_indices]
masks_of(labels_, sorted_indices_) ==
    [k \in 1 .. Len(sorted_indices_) |-> labels_[sorted_indices_[k]]]

(***************************************************************************)
(* define_adaptive_lung_sectors.                                           *)
(***************************************************************************)
RowMin(X) == CHOOSE y \in { p[1] : p \in X } : \A q \in X : y <= q[1]
RowMax(X) == CHOOSE y \in { p[1] : p \in X } : \A q \in X : y >= q[1]

\* end_y of sector i (0, 1, 2)
SectorEndMutant(i, y_min, y_max, sector_height) == y_min + (i + 1) * sector_height
sector_end(i, y_min, y_max, sector_height) ==
    IF i < 2 THEN y_min + (i + 1) * sector_height ELSE y_max + 1

\* mask[start_y:end_y, :] = lung_mask[start_y:end_y, :] on a zero mask
RowsOf(lung_mask, start_y, end_y) ==
    { p \in lung_mask : start_y <= p[1] /\ p[1] < end_y }

define_adaptive_lung_sectors(lung_mask) ==
    IF lung_mask = {} THEN << {}, {}, {} >>
    ELSE LET y_min == RowMin(lung_mask)
             y_max == RowMax(lung_mask)
             lung_height == y_max - y_min + 1
             sector_height == lung_height \div 3
         IN  [k \in 1 .. 3 |->
                 RowsOf(lung_mask,
                        y_min + (k - 1) * sector_height,
                        sector_end(k - 1, y_min, y_max, sector_height))]

(***************************************************************************)
(* compute_sector_statistics.  The floating-point results are held as      *)
(* exact fractions: a mean and a percentage as <<numerator, denominator>>, *)
(* a standard deviation as <<r, n>> standing for sqrt(r) / n.  The integer *)
(* 0 that the code stores for an empty sector, or for a total of 0, is     *)
(* Zero.                                                                   *)
(***************************************************************************)
Zero == <<0, 1>>

SectorNames == << "Upper", "Middle", "Lower" >>

\* masked_pixels.sum()
Kct(sector, original_image) == SumOver(sector, original_image)

\* masked_pixels.mean() if masked_pixels.size > 0 else 0
MeanMutant(sector, original_image) ==
    << Kct(sector, original_image), Cardinality(sector) >>
mean_intensity(sector, original_image) ==
    IF Cardinality(sector) > 0
    THEN << Kct(sector, original_image), Cardinality(sector) >>
    ELSE Zero

\* masked_pixels.std() if masked_pixels.size > 0 else 0: the population
\* standard deviation sqrt(n * sum(x^2) - sum(x)^2) / n
std_dev_intensity(sector, original_image) ==
    IF Cardinality(sector) > 0
    THEN LET n == Cardinality(sector)
             sq == [p \in sector |-> original_image[p] * original_image[p]]
             s == Kct(sector, original_image)
         IN  << n * SumOver(sector, sq) - s * s, n >>
    ELSE Zero

\* (data['Kct'] / total_intensity) * 100 if total_intensity > 0 else 0
PercentageMutant(kct, total_intensity) ==
    IF total_intensity > 0 THEN << (kct * 100) \div total_intensity, 1 >> ELSE Zero
percentage(kct, total_intensity) ==
    IF total_intensity > 0 THEN << kct * 100, total_intensity >> ELSE Zero

\* total_intensity after the loop over the sectors
total_intensity_of(sectors_, original_image) ==
    Kct(sectors_[1], original_image) + Kct(sectors_[2], original_image)
        + Kct(sectors_[3], original_image)

\* <<sector_data, total_intensity>>
compute_sector_statistics(sectors_, original_image) ==
    LET total == total_intensity_of(sectors_, original_image)
    IN  << [k \in 1 .. 3 |->
              [ Sector |-> SectorNames[k],
                Area |-> Cardinality(sectors_[k]),
                MeanIntensity |-> mean_intensity(sectors_[k], original_image),
                StandardDeviation |-> std_dev_intensity(sectors_[k], original_image),
                Kct |-> Kct(sectors_[k], original_image),
                Percentage |-> percentage(Kct(sectors_[k], original_image), total) ]],
           total >>

(***************************************************************************)
(* process_lung_image: the label pair of a projection, the empty sequence   *)
(* when the projection is not recognised (the code then raises ValueError).*)
(***************************************************************************)
LabelsMutant(projection) == << "Left Lung", "Right Lung" >>
lung_labels_of(projection) ==
    IF projection = "anterior" THEN << "Left Lung", "Right Lung" >>
    ELSE IF projection = "posterior" THEN << "Left Lung", "Right Lung" >>
    ELSE << >>

(***************************************************************************)
(* State of one run.                                                       *)
(***************************************************************************)
VARIABLES
    pc,               \* the position of the run
    shape,            \* <<rows, columns>> of the arrays of the run
    file,             \* <<image>> stored at filepath, NoArray when unreadable
    image,            \* <<image>> read by load_and_binarize_image, NoArray for None
    projection_type,
    binary_image,
    opened_image,
    processed_image,
    labels,           \* label id -> pixel set, label 0 the background
    sorted_indices,
    lung_masks,
    grayscale_image,  \* <<image>>, NoArray for None
    lung_labels,
    sectors,          \* the sectors of the lung processed last
    lung_results,
    error             \* the exception that ended the run, NoError when none

vars == << pc, shape, file, image, projection_type, binary_image, opened_image,
           processed_image, labels, sorted_indices, lung_masks,
           grayscale_image, lung_labels, sectors, lung_results, error >>

Projections == { "anterior", "posterior", "lateral" }

(***************************************************************************)
(* Input families.                                                         *)
(***************************************************************************)
StripeShape == << ImgH, NStripes * StripeW >>

\* the image whose stripe k (0-based) has the intensity v[k + 1] in every row
StripeImage(v) == [p \in Pixels(StripeShape) |-> v[(p[2] \div StripeW) + 1]]

StripeImages(values) == { StripeImage(v) : v \in [1 .. NStripes -> values] }

\* the image of a shape whose pixel number i in row-major order holds
\* base + step * i, reduced to a byte
RampImage(sh, base, step) ==
    [p \in Pixels(sh) |-> (base + step * (p[1] * sh[2] + p[2])) % (MAXVAL + 1)]

(***************************************************************************)
(* Steps of process_lung_image.                                            *)
(***************************************************************************)
\* Step 1: binary_image = load_and_binarize_image(filepath)
Load ==
    /\ pc = "load"
    /\ IF file = NoArray
       THEN /\ error' = "ImageLoadError"
            /\ pc' = "raised"
            /\ UNCHANGED binary_image
       ELSE /\ binary_image' = threshold(file[1], shape)
            /\ pc' = "morph"
            /\ UNCHANGED error
    /\ image' = file
    /\ UNCHANGED << shape, file, projection_type, opened_image, processed_image,
                    labels, sorted_indices, lung_masks, grayscale_image,
                    lung_labels, sectors, lung_results >>

\* processed_image = apply_morphological_operations(binary_image), taking
\* the run from one position to the next
MorphStep(from, to) ==
    /\ pc = from
    /\ LET r == apply_morphological_operations(binary_image, shape)
       IN  /\ opened_image' = r[1]
           /\ processed_image' = r[2]
    /\ pc' = to
    /\ UNCHANGED << shape, file, image, projection_type, binary_image, labels,
                    sorted_indices, lung_masks, grayscale_image, lung_labels,
                    sectors, lung_results, error >>

\* Step 2: processed_image = apply_morphological_operations(binary_image)
Morph == MorphStep("morph", "extract")

\* Step 3: lung_masks = extract_connected_lung_components(processed_image)
Extract ==
    /\ pc = "extract"
    /\ \E lm \in LabelMaps(processed_image, shape) :
         \E order \in argsort(Areas(lm)) :
            /\ labels' = lm
            /\ sorted_indices' = select_indices(order)
            /\ lung_masks' = masks_of(lm, select_indices(order))
    /\ pc' = "reload"
    /\ UNCHANGED << shape, file, image, projection_type, binary_image, opened_image,
                    processed_image, grayscale_image, lung_labels, sectors,
                    lung_results, error >>

\* grayscale_image = cv2.imread(filepath, cv2.IMREAD_GRAYSCALE)
Reload ==
    /\ pc = "reload"
    /\ grayscale_image' = file
    /\ pc' = "labels"
    /\ UNCHANGED << shape, file, image, projection_type, binary_image, opened_image,
                    processed_image, labels, sorted_indices, lung_masks,
                    lung_labels, sectors, lung_results, error >>

\* the if / elif / else on projection_type
AssignLabels ==
    /\ pc = "labels"
    /\ IF lung_labels_of(projection_type) = << >>
       THEN /\ error' = "InvalidProjectionError"
            /\ pc' = "raised"
            /\ UNCHANGED lung_labels
       ELSE /\ lung_labels' = lung_labels_of(projection_type)
            /\ pc' = "loop"
            /\ UNCHANGED error
    /\ UNCHANGED << shape, file, image, projection_type, binary_image, opened_image,
                    processed_image, labels, sorted_indices, lung_masks,
                    grayscale_image, sectors, lung_results >>

\* one iteration of: for lung_mask, lung_label in zip(lung_masks, lung_labels)
\* (compute_sector_statistics reads original_image.shape, which raises
\* AttributeError on None)
ProcessLung ==
    /\ pc = "loop"
    /\ Len(lung_results) < Min(Len(lung_masks), Len(lung_labels))
    /\ LET i == Len(lung_results) + 1
           s == define_adaptive_lung_sectors(lung_masks[i])
       IN  /\ sectors' = s
           /\ IF grayscale_image = NoArray
              THEN /\ error' = "AttributeError"
                   /\ pc' = "raised"
                   /\ UNCHANGED lung_results
              ELSE LET r == compute_sector_statistics(s, grayscale_image[1])
                   IN  /\ lung_results' =
                              Append(lung_results,
                                     [ LungLabel |-> lung_labels[i],
                                       SectorStatistics |-> r[1],
                                       TotalKct |-> r[2] ])
                       /\ UNCHANGED << pc, error >>
    /\ UNCHANGED << shape, file, image, projection_type, binary_image, opened_image,
                    processed_image, labels, sorted_indices, lung_masks,
                    grayscale_image, lung_labels >>

\* return lung_results
Return ==
    /\ pc = "loop"
    /\ Len(lung_results) = Min(Len(lung_masks), Len(lung_labels))
    /\ pc' = "returned"
    /\ UNCHANGED << shape, file, image, projection_type, binary_image, opened_image,
                    processed_image, labels, sorted_indices, lung_masks,
                    grayscale_image, lung_labels, sectors, lung_results, error >>

(***************************************************************************)
(* process_lung_image(filepath, projection_type) on a stripe image.        *)
(***************************************************************************)
Init ==
    /\ pc = "load"
    /\ shape = StripeShape
    /\ file \in { <<img>> : img \in StripeImages({THRESH, THRESH + 1, MAXVAL}) }
                 \cup {NoArray}
    /\ image = NoArray
    /\ projection_type \in Projections
    /\ binary_image = {}
    /\ opened_image = {}
    /\ processed_image = {}
    /\ labels = << >>
    /\ sorted_indices = << >>
    /\ lung_masks = << >>
    /\ grayscale_image = NoArray
    /\ lung_labels = << >>
    /\ sectors = << >>
    /\ lung_results = << >>
    /\ error = NoError

Next ==
    \/ Load
    \/ Morph
    \/ Extract
    \/ Reload
    \/ AssignLabels
    \/ ProcessLung
    \/ Return

Spec == Init /\ [][Next]_vars

(***************************************************************************)
(* apply_morphological_operations on a mask, and again on what it returned *)
(* or on the opened mask it went through.  The masks are those uniform     *)
(* along one axis, MorphW columns (or rows) in ImgH rows (or columns), and *)
(* the rectangles of a shape a little larger than the opening kernel.      *)
(***************************************************************************)
ColumnMask(K, sh) == { p \in Pixels(sh) : p[2] \in K }
RowMask(K, sh) == { p \in Pixels(sh) : p[1] \in K }

\* the rows y0 .. y1 of the columns x0 .. x1
Rectangle(y0, y1, x0, x1, sh) ==
    { p \in Pixels(sh) : y0 <= p[1] /\ p[1] <= y1 /\ x0 <= p[2] /\ p[2] <= x1 }

\* the smallest shape in which the opening kernel fits in two places along
\* each axis
KernelRoom == << KOpenH + 1, KOpenW + 1 >>

InitMorph ==
    /\ pc = "morph"
    /\ \/ \E K \in SUBSET (0 .. MorphW - 1) :
             /\ shape = << ImgH, MorphW >>
             /\ binary_image = ColumnMask(K, << ImgH, MorphW >>)
       \/ \E K \in SUBSET (0 .. MorphW - 1) :
             /\ shape = << MorphW, ImgH >>
             /\ binary_image = RowMask(K, << MorphW, ImgH >>)
       \/ \E y0, y1 \in 0 .. KernelRoom[1] - 1, x0, x1 \in 0 .. KernelRoom[2] - 1 :
             /\ shape = KernelRoom
             /\ binary_image = Rectangle(y0, y1, x0, x1, KernelRoom)
    /\ file = NoArray
    /\ image = NoArray
    /\ projection_type = "anterior"
    /\ opened_image = {}
    /\ processed_image = {}
    /\ labels = << >>
    /\ sorted_indices = << >>
    /\ lung_masks = << >>
    /\ grayscale_image = NoArray
    /\ lung_labels = << >>
    /\ sectors = << >>
    /\ lung_results = << >>
    /\ error = NoError

\* the caller hands a mask the function produced back to the function
FeedBackOpened ==
    /\ pc = "extract"
    /\ binary_image' = opened_image
    /\ pc' = "morph_opened"
    /\ UNCHANGED << shape, file, image, projection_type, opened_image, processed_image,
                    labels, sorted_indices, lung_masks, grayscale_image,
                    lung_labels, sectors, lung_results, error >>

FeedBackProcessed ==
    /\ pc = "extract"
    /\ binary_image' = processed_image
    /\ pc' = "morph_processed"
    /\ UNCHANGED << shape, file, image, projection_type, opened_image, processed_image,
                    labels, sorted_indices, lung_masks, grayscale_image,
                    lung_labels, sectors, lung_results, error >>

MorphAgainOpened == MorphStep("morph_opened", "again_opened")
MorphAgainProcessed == MorphStep("morph_processed", "again_processed")

NextMorph ==
    \/ Morph
    \/ FeedBackOpened
    \/ FeedBackProcessed
    \/ MorphAgainOpened
    \/ MorphAgainProcessed

SpecMorph == InitMorph /\ [][NextMorph]_vars

(***************************************************************************)
(* extract_connected_lung_components on a cleaned mask: every mask of one  *)
(* row of ExtractW pixels and every mask of two rows of half that width.   *)
(***************************************************************************)
InitExtract ==
    /\ pc = "extract"
    /\ shape \in { << 1, ExtractW >>, << 2, ExtractW \div 2 >> }
    /\ processed_image \in SUBSET Pixels(shape)
    /\ file = NoArray
    /\ image = NoArray
    /\ projection_type = "anterior"
    /\ binary_image = {}
    /\ opened_image = {}
    /\ labels = << >>
    /\ sorted_indices = << >>
    /\ lung_masks = << >>
    /\ grayscale_image = NoArray
    /\ lung_labels = << >>
    /\ sectors = << >>
    /\ lung_results = << >>
    /\ error = NoError

NextExtract == Extract

SpecExtract == InitExtract /\ [][NextExtract]_vars

(***************************************************************************)
(* The loop body of process_lung_image (define_adaptive_lung_sectors, then *)
(* compute_sector_statistics) on one lung mask: every mask of SectorH rows *)
(* and SectorW columns, over a black image and over a ramp.                *)
(***************************************************************************)
SectorShape == << SectorH, SectorW >>

InitSectors ==
    /\ pc = "loop"
    /\ shape = SectorShape
    /\ \E m \in SUBSET Pixels(SectorShape) : lung_masks = << m >>
    /\ grayscale_image \in { << RampImage(SectorShape, 0, 0) >>,
                             << RampImage(SectorShape, THRESH + 1, 37) >> }
    /\ lung_labels = lung_labels_of("anterior")
    /\ file = NoArray
    /\ image = NoArray
    /\ projection_type = "anterior"
    /\ binary_image = {}
    /\ opened_image = {}
    /\ processed_image = {}
    /\ labels = << >>
    /\ sorted_indices = << >>
    /\ sectors = << >>
    /\ lung_results = << >>
    /\ error = NoError

NextSectors ==
    \/ ProcessLung
    \/ Return

SpecSectors == InitSectors /\ [][NextSectors]_vars

(***************************************************************************)
(* compute_sector_statistics on three arbitrary masks of one row of StatsW *)
(* pixels, over every image with intensities from Intensities.             *)
(***************************************************************************)
StatsShape == << 1, StatsW >>

\* stats, total_kct = compute_sector_statistics(sectors, grayscale_image, label)
ComputeStats ==
    /\ pc = "stats"
    /\ LET r == compute_sector_statistics(sectors, grayscale_image[1])
       IN  lung_results' = << [ LungLabel |-> lung_labels[1],
                                SectorStatistics |-> r[1],
                                TotalKct |-> r[2] ] >>
    /\ pc' = "stats_done"
    /\ UNCHANGED << shape, file, image, projection_type, binary_image, opened_image,
                    processed_image, labels, sorted_indices, lung_masks,
                    grayscale_image, lung_labels, sectors, error >>

InitStats ==
    /\ pc = "stats"
    /\ shape = StatsShape
    /\ sectors \in [1 .. 3 -> SUBSET Pixels(StatsShape)]
    /\ \E img \in [Pixels(StatsShape) -> Intensities] : grayscale_image = << img >>
    /\ lung_labels = lung_labels_of("anterior")
    /\ file = NoArray
    /\ image = NoArray
    /\ projection_type = "anterior"
    /\ binary_image = {}
    /\ opened_image = {}
    /\ processed_image = {}
    /\ labels = << >>
    /\ sorted_indices = << >>
    /\ lung_masks = << >>
    /\ lung_results = << >>
    /\ error = NoError

NextStats == ComputeStats

SpecStats == InitStats /\ [][NextStats]_vars

(***************************************************************************)
(* process_lung_image while another process writes the file at filepath.   *)
(* The run reads the file twice, in load_and_binarize_image and again      *)
(* before the projection test; between the two reads the other process may *)
(* replace the file by another image or remove it.  (A write before the    *)
(* first read only changes the input, and the run never reads the file     *)
(* after the second.)  The images are the stripe images over the threshold *)
(* and white.                                                              *)
(***************************************************************************)
RaceFiles == { <<img>> : img \in StripeImages({THRESH, MAXVAL}) } \cup {NoArray}

\* another process replaces, modifies or removes the file
ReplaceFile ==
    /\ pc \in { "morph", "extract", "reload" }
    /\ \E f \in RaceFiles \ {file} : file' = f
    /\ UNCHANGED << pc, shape, image, projection_type, binary_image,
                    opened_image, processed_image, labels, sorted_indices,
                    lung_masks, grayscale_image, lung_labels, sectors,
                    lung_results, error >>

InitRace ==
    /\ pc = "load"
    /\ shape = StripeShape
    /\ file \in RaceFiles
    /\ image = NoArray
    /\ projection_type \in Projections
    /\ binary_image = {}
    /\ opened_image = {}
    /\ processed_image = {}
    /\ labels = << >>
    /\ sorted_indices = << >>
    /\ lung_masks = << >>
    /\ grayscale_image = NoArray
    /\ lung_labels = << >>
    /\ sectors = << >>
    /\ lung_results = << >>
    /\ error = NoError

NextRace ==
    \/ Load
    \/ Morph
    \/ Extract
    \/ Reload
    \/ AssignLabels
    \/ ProcessLung
    \/ Return
    \/ ReplaceFile

SpecRace == InitRace /\ [][NextRace]_vars

(***************************************************************************)
(* C8.  The morphological cleanup.                                         *)
(***************************************************************************)
\* C8, as stated: applying apply_morphological_operations to the mask it
\* returned yields that mask again.
C8_CleanupIdempotent ==
    pc = "again_processed" => processed_image = binary_image

\* C8, amended: the opening step is idempotent -- handing the opened mask
\* back to the cleanup, its opening step returns the opened mask unchanged.
C8_OpeningIdempotent ==
    pc = "again_opened" => opened_image = binary_image

\* an opened mask of two dimensions that is neither empty nor full went
\* through the opening step again
C8_Witness ==
    /\ pc = "again_opened"
    /\ shape = KernelRoom
    /\ binary_image # {}
    /\ binary_image # Pixels(shape)
    /\ opened_image = binary_image

(***************************************************************************)
(* C2, C6, C10.  Component extraction.                                     *)
(***************************************************************************)
\* the run is past extract_connected_lung_components
Extracted == pc \in { "reload", "labels", "loop", "returned" }

\* the number of non-background 8-connected components of the cleaned mask
NumComponents == Cardinality(ConnectedComponents(processed_image))

AllLabels == DOMAIN labels
NonBackground == DOMAIN labels \ {0}
area == Areas(labels)

\* sorted_indices is <<s1, s2>>, got from the labels L by skipping one label
\* that is at least as large as both and leaving only labels no larger than s2
SecondAndThirdOf(L) ==
    /\ Len(sorted_indices) = 2
    /\ LET s1 == sorted_indices[1]
           s2 == sorted_indices[2]
       IN  /\ s1 \in L /\ s2 \in L /\ s1 # s2
           /\ area[s1] >= area[s2]
           /\ \E f \in L \ {s1, s2} :
                 /\ area[f] >= area[s1]
                 /\ \A o \in L \ {f, s1, s2} : area[o] <= area[s2]
           /\ lung_masks = << labels[s1], labels[s2] >>

\* sorted_indices is <<s1, s2>>, the two largest labels of L in that order
FirstAndSecondOf(L) ==
    /\ Len(sorted_indices) = 2
    /\ LET s1 == sorted_indices[1]
           s2 == sorted_indices[2]
       IN  /\ s1 \in L /\ s2 \in L /\ s1 # s2
           /\ area[s1] >= area[s2]
           /\ \A o \in L \ {s1, s2} : area[o] <= area[s2]
           /\ lung_masks = << labels[s1], labels[s2] >>

\* C2, as stated: with at least three components, the largest
\* non-background component is skipped and the second- and third-ranked
\* non-background components are returned, in that order.
C2_SkipsLargestComponent ==
    (Extracted /\ NumComponents >= 3) => SecondAndThirdOf(NonBackground)

\* C2, amended: with at least three components, the ranking is over all
\* labels, the background label 0 included: the single largest label is
\* skipped and the second- and third-ranked labels are returned, in that
\* order; so when the background is larger than every component and the
\* areas differ, the two largest components are returned, largest first.
C2_SkipsLargestLabel ==
    (Extracted /\ NumComponents >= 3) =>
        /\ SecondAndThirdOf(AllLabels)
        /\ ( /\ \A l \in NonBackground : area[0] > area[l]
             /\ \A l, m \in NonBackground : l # m => area[l] # area[m] )
           => /\ \A o \in NonBackground : area[sorted_indices[1]] >= area[o]
              /\ \A o \in NonBackground \ {sorted_indices[1]} :
                     area[sorted_indices[2]] >= area[o]

\* three components of different areas under a larger background were
\* ranked
C2_Witness ==
    /\ pc = "reload"
    /\ NumComponents = 3
    /\ \A l \in NonBackground : area[0] > area[l]
    /\ \A l, m \in NonBackground : l # m => area[l] # area[m]
    /\ sorted_indices[1] # 1

\* the label before which exactly k - 1 labels of L rank, ranking by area
\* descending and, among equal areas, by label id ascending
Ahead(l, m) == area[l] > area[m] \/ (area[l] = area[m] /\ l < m)
RankedLowerIdFirst(L) ==
    [k \in 1 .. Cardinality(L) |->
        CHOOSE l \in L : Cardinality({ m \in L : Ahead(m, l) }) = k - 1]

\* C6, as stated: equal areas are ranked lower label id first, so the
\* selection follows from areas and label ids alone (whether the ranking is
\* over the components or over all labels, and whether it skips the first).
C6_LowerIdFirst ==
    pc = "reload" =>
        sorted_indices \in { Slice(RankedLowerIdFirst(NonBackground), 1, 3),
                             Slice(RankedLowerIdFirst(NonBackground), 0, 2),
                             Slice(RankedLowerIdFirst(AllLabels), 1, 3) }

\* the k-th largest entry of the areas of all labels
KthLargestArea(k) ==
    CHOOSE v \in { area[l] : l \in AllLabels } :
        /\ Cardinality({ l \in AllLabels : area[l] > v }) < k
        /\ Cardinality({ l \in AllLabels : area[l] >= v }) >= k

\* C6, amended: label ids do not decide the order of labels of equal area
\* (the sort is not stable and its result is reversed); what is determined
\* is the areas of the selected labels: the second and the third largest
\* of the areas of all labels.
C6_AreasDetermined ==
    pc = "reload" =>
        /\ Len(sorted_indices) = Min(Cardinality(AllLabels) - 1, 2)
        /\ \A k \in 1 .. Len(sorted_indices) :
              /\ sorted_indices[k] \in AllLabels
              /\ area[sorted_indices[k]] = KthLargestArea(k + 1)
        /\ Len(sorted_indices) = 2 => sorted_indices[1] # sorted_indices[2]

\* two components of equal area were selected, the higher label id first
C6_Witness ==
    /\ pc = "reload"
    /\ Len(sorted_indices) = 2
    /\ sorted_indices[2] # 0
    /\ sorted_indices[1] > sorted_indices[2]
    /\ area[sorted_indices[1]] = area[sorted_indices[2]]

\* C10, as stated: with at least two components, whatever the area of the
\* background, the two largest components are returned, never the
\* background, so every lung mask pixel is a foreground pixel of the
\* cleaned mask.
C10_TwoLargestComponents ==
    (Extracted /\ NumComponents >= 2) =>
        /\ FirstAndSecondOf(NonBackground)
        /\ \A k \in 1 .. Len(lung_masks) : lung_masks[k] \subseteq processed_image

(***************************************************************************)
(* C1, C9.  The sector partition.                                          *)
(***************************************************************************)
\* the lung mask whose sectors the variable sectors holds
LastLung == lung_masks[Len(lung_results)]

\* C1: the three sector masks are pairwise disjoint and their union is the
\* lung mask.
C1_SectorsTileLung ==
    (pc \in { "loop", "returned" } /\ Len(lung_results) >= 1) =>
        /\ Len(sectors) = 3
        /\ sectors[1] \cap sectors[2] = {}
        /\ sectors[1] \cap sectors[3] = {}
        /\ sectors[2] \cap sectors[3] = {}
        /\ sectors[1] \cup sectors[2] \cup sectors[3] = LastLung

\* a lung of height 5 (the Lower band takes the remainder 2) that is not a
\* full rectangle was cut into three non-empty sectors
C1_Witness ==
    /\ pc = "loop"
    /\ Len(lung_results) = 1
    /\ LastLung # {}
    /\ RowMax(LastLung) - RowMin(LastLung) = 4
    /\ \E p \in Pixels(shape) :
          /\ p \notin LastLung
          /\ RowMin(LastLung) < p[1]
          /\ p[1] < RowMax(LastLung)
    /\ \A k \in 1 .. 3 : sectors[k] # {}

\* C9: an empty lung mask raises no error: its three sectors are empty and
\* every sector has area 0, mean 0, standard deviation 0 and Kct 0, with
\* total 0.
C9_EmptyLungAllZero ==
    (Len(lung_results) >= 1 /\ LastLung = {}) =>
        /\ error = NoError
        /\ sectors = << {}, {}, {} >>
        /\ lung_results[Len(lung_results)].TotalKct = 0
        /\ \A k \in 1 .. 3 :
              LET d == lung_results[Len(lung_results)].SectorStatistics[k]
              IN  /\ d.Area = 0
                  /\ d.MeanIntensity = Zero
                  /\ d.StandardDeviation = Zero
                  /\ d.Kct = 0

\* the statistics of an empty lung mask were computed over an image that is
\* not black
C9_Witness ==
    /\ Len(lung_results) = 1
    /\ lung_masks = << {} >>
    /\ \E p \in Pixels(shape) : grayscale_image[1][p] > 0

(***************************************************************************)
(* C5.  Percentages.                                                       *)
(***************************************************************************)
SectorData(k) == lung_results[1].SectorStatistics[k]

\* C5: the total is the sum of the three Kct values; with a positive total
\* each percentage is 100 * Kct / total and the three sum to 100; with a
\* total of 0 every percentage is 0.
C5_PercentagesConserve ==
    pc = "stats_done" =>
        LET total == lung_results[1].TotalKct
            num(k) == SectorData(k).Percentage[1]
            den(k) == SectorData(k).Percentage[2]
        IN  /\ total = SectorData(1).Kct + SectorData(2).Kct + SectorData(3).Kct
            /\ \A k \in 1 .. 3 :
                  SectorData(k).Kct = SumOver(sectors[k], grayscale_image[1])
            /\ total > 0 =>
                  /\ \A k \in 1 .. 3 :
                        /\ den(k) > 0
                        /\ num(k) * total = 100 * SectorData(k).Kct * den(k)
                  /\ (num(1) * total) \div den(1) + (num(2) * total) \div den(2)
                        + (num(3) * total) \div den(3)
                     = 100 * total
            /\ total = 0 => \A k \in 1 .. 3 : SectorData(k).Percentage = Zero

\* three sectors with different positive Kct values, none a divisor-friendly
\* share of the total
C5_Witness ==
    /\ pc = "stats_done"
    /\ lung_results[1].TotalKct > 0
    /\ SectorData(1).Kct > 0
    /\ SectorData(2).Kct > SectorData(1).Kct
    /\ SectorData(3).Kct > SectorData(2).Kct
    /\ (100 * SectorData(1).Kct) % lung_results[1].TotalKct # 0

(***************************************************************************)
(* C3, C4, C7.  process_lung_image as a whole.                             *)
(***************************************************************************)
\* C3, as stated: with fewer than three components the extraction fails
\* with an insufficient-components error and no record is returned.
C3_FewComponentsRaise ==
    (pc \notin { "load", "morph", "extract" } /\ error # "ImageLoadError"
        /\ NumComponents < 3) =>
        /\ pc = "raised"
        /\ error = "InsufficientComponentsError"
        /\ lung_results = << >>

\* C3, amended: the extraction never fails with an insufficient-components
\* error: for n components it returns min(n, 2) lung masks, and a run that
\* returns, returns min(n, 2) records -- none for n = 0, one for n = 1, two
\* for n = 2.
C3_FewComponentsPartialResult ==
    /\ error # "InsufficientComponentsError"
    /\ Extracted => Len(lung_masks) = Min(NumComponents, 2)
    /\ pc = "returned" =>
          /\ error = NoError
          /\ Len(lung_results) = Min(NumComponents, 2)

\* a run over a cleaned mask of a single component returned one record
C3_Witness ==
    /\ pc = "returned"
    /\ NumComponents = 1
    /\ Len(lung_results) = 1

\* C4: a normal return is a sequence of exactly two records; record i is
\* computed from lung mask i, carries label i of the pair and holds the
\* statistics of Upper, Middle, Lower in that order.
C4_ExactlyTwoRecords ==
    pc = "returned" =>
        /\ Len(lung_results) = 2
        /\ \A i \in 1 .. Len(lung_results) :
              LET r == compute_sector_statistics(
                           define_adaptive_lung_sectors(lung_masks[i]),
                           grayscale_image[1])
              IN  /\ lung_results[i].LungLabel = << "Left Lung", "Right Lung" >>[i]
                  /\ lung_results[i].SectorStatistics = r[1]
                  /\ lung_results[i].TotalKct = r[2]
                  /\ [k \in 1 .. 3 |-> lung_results[i].SectorStatistics[k].Sector]
                        = SectorNames

\* C7: over a loadable image, a projection other than "anterior" and
\* "posterior" ends the run with an invalid-projection error and without a
\* record -- the run does not return, and at the projection check it can
\* only go on to raise; a recognised projection never raises that error.
C7_InvalidProjectionRaises ==
    /\ (file # NoArray /\ projection_type \notin { "anterior", "posterior" }) =>
          /\ pc \notin { "loop", "returned" }
          /\ lung_results = << >>
          /\ pc = "raised" => error = "InvalidProjectionError"
          /\ pc = "labels" => ENABLED AssignLabels
    /\ projection_type \in { "anterior", "posterior" } =>
          error # "InvalidProjectionError"

\* a run over an image with two components ended with the
\* invalid-projection error
C7_Witness ==
    /\ pc = "raised"
    /\ error = "InvalidProjectionError"
    /\ projection_type = "lateral"
    /\ NumComponents = 2

(***************************************************************************)
(* C11.  The two reads of the file.                                        *)
(***************************************************************************)
\* C11: within one run, the grayscale image the statistics are computed
\* over is the array that was binarized, also when the file is replaced or
\* removed between the steps; and a failed read is reported as an
\* image-load error before any stage ran -- a run ends with no other error
\* than the image-load and the invalid-projection error.
C11_SameImageThroughout ==
    /\ pc \in { "labels", "loop", "returned" } =>
          /\ image # NoArray
          /\ grayscale_image = image
    /\ \A i \in 1 .. Len(lung_results) :
          LET r == compute_sector_statistics(
                       define_adaptive_lung_sectors(lung_masks[i]), image[1])
          IN  /\ lung_results[i].SectorStatistics = r[1]
              /\ lung_results[i].TotalKct = r[2]
    /\ pc = "raised" => error \in { "ImageLoadError", "InvalidProjectionError" }
    /\ error = "ImageLoadError" =>
          /\ image = NoArray
          /\ binary_image = {}
          /\ processed_image = {}
          /\ lung_masks = << >>
          /\ lung_results = << >>

====
